---------------------------- MODULE Spec2Model ----------------------------
(***************************************************************************)
(* A model of the DynamoDB tool layer of the repository:                   *)
(*   src/src/strands_dynamodb.py   table tools and item tools              *)
(*   src/src/strands_dyn_memory.py the memory tools (ensure/store/list)    *)
(*                                                                         *)
(* The backing engine is the state <<tstatus, tdesc, titems>>.  Every tool *)
(* call that reaches the engine is one atomic step; a tool that makes      *)
(* several engine calls (ensure_memory_table_exists) is one step per call, *)
(* so that other callers interleave between them.                          *)
(***************************************************************************)
EXTENDS Integers, Sequences, FiniteSets, TLC

(***************************************************************************)
(* Bounds of the model.                                                    *)
(***************************************************************************)
\* Number of concurrent callers of ensure_memory_table_exists.
NumCallers == 2
\* Polls the 'table_exists' waiter makes before it raises WaiterError.  The
\* number is the waiter's own configuration, not set in the repository; the
\* model keeps it small.
WaiterMaxAttempts == 3

MEMORY_TABLE_NAME == "AIMemories"
OtherTable == "t1"
TableNames == {MEMORY_TABLE_NAME, OtherTable}
Callers == 1..NumCallers

VARIABLES
  tstatus,  \* engine: table name -> "Absent" | "Creating" | "Active" | "Deleting"
  tdesc,    \* engine: table name -> descriptor (key schema, billing mode)
  titems,   \* engine: table name -> set of stored items (wire form)
  pc,       \* caller -> position inside ensure_memory_table_exists
  polls,    \* caller -> attempts its waiter has made
  res,      \* caller -> what ensure_memory_table_exists returned
  tret,     \* return value of the most recent table tool call
  hist,     \* the most recent item tool calls, newest first (at most two)
  clock,    \* the wall clock: the index of the current instant in Instants
  fault,    \* what stands between the tools and the engine: "none", or the
            \* failure every engine call meets
  pending   \* writer -> its put request on the way to the engine

vars == <<tstatus, tdesc, titems, pc, polls, res, tret, hist, clock, fault,
          pending>>
engine == <<tstatus, tdesc, titems>>
callers == <<pc, polls, res>>

NoKey == ""
NoDesc == [pk |-> NoKey, sk |-> NoKey, billing |-> ""]

(***************************************************************************)
(* Wire values: what the engine stores.  A number is kept exactly, in      *)
(* millionths (3140000 is the decimal 3.14).                               *)
(***************************************************************************)
Unit == 10^6
WS(s) == [kind |-> "S", val |-> s]
WN(h) == [kind |-> "N", val |-> h]

\* A writer with no request on the way.
NoRequest == [state |-> "idle"]

(***************************************************************************)
(* Failures of a call to the engine that have nothing to do with the       *)
(* tables: an error response of the service (botocore raises ClientError), *)
(* or no response at all (botocore raises an exception that is no          *)
(* ClientError).                                                           *)
(***************************************************************************)
ServiceFault == "InternalServerError"
ConnectionFault == "EndpointConnectionError"
Faults == {"none", ServiceFault, ConnectionFault}

\* What a call answers: the failure it meets, or else the engine's answer.
Through(code) == IF fault = "none" THEN code ELSE fault

\* except ClientError catches the engine's error codes and the service's.
IsClientError(code) == code \notin {"ok", ConnectionFault, "TypeError"}

(***************************************************************************)
(* The engine's table protocol, as the tools' calls see it.                *)
(***************************************************************************)
\* dynamodb_client.describe_table: the error code, or "ok".
DescribeTableCode(t) ==
  Through(IF tstatus[t] = "Absent" THEN "ResourceNotFoundException" ELSE "ok")

\* dynamodb_client.create_table: a table of that name in any status is in use.
CreateTableCode(t) ==
  Through(IF tstatus[t] = "Absent" THEN "ok" ELSE "ResourceInUseException")

\* What an accepted create_table does to the engine.
CreateTableEffect(t, d) ==
  /\ tstatus' = [tstatus EXCEPT ![t] = "Creating"]
  /\ tdesc' = [tdesc EXCEPT ![t] = d]
  /\ titems' = [titems EXCEPT ![t] = {}]

\* dynamodb_client.delete_table: a table being created is in use; deleting a
\* table that is already being deleted is accepted and changes nothing.
DeleteTableCode(t) ==
  Through(CASE tstatus[t] = "Absent" -> "ResourceNotFoundException"
            [] tstatus[t] = "Creating" -> "ResourceInUseException"
            [] OTHER -> "ok")

DeleteTableSkipsDeleting(t) ==
  /\ tstatus' = [tstatus EXCEPT ![t] = "Absent"]
  /\ tdesc' = [tdesc EXCEPT ![t] = NoDesc]
  /\ titems' = [titems EXCEPT ![t] = {}]

\* What an accepted delete_table does to the engine: deletion is only begun.
DeleteTableEffect(t) ==
  /\ tstatus' = [tstatus EXCEPT ![t] = "Deleting"]
  /\ UNCHANGED <<tdesc, titems>>

\* The engine's own progress: a creation or a deletion completes.
EngineProgress(t) ==
  /\ tstatus[t] \in {"Creating", "Deleting"}
  /\ IF tstatus[t] = "Creating"
       THEN /\ tstatus' = [tstatus EXCEPT ![t] = "Active"]
            /\ UNCHANGED <<tdesc, titems>>
       ELSE /\ tstatus' = [tstatus EXCEPT ![t] = "Absent"]
            /\ tdesc' = [tdesc EXCEPT ![t] = NoDesc]
            /\ titems' = [titems EXCEPT ![t] = {}]
  /\ UNCHANGED <<callers, tret, hist, clock, fault, pending>>

(***************************************************************************)
(* Table tools (strands_dynamodb.py).                                      *)
(***************************************************************************)
NoRet == [op |-> "none", table |-> "", res |-> "", status |-> ""]

CreateResultGeneric(code) ==
  IF code = "ok" THEN "ok" ELSE "error"

\* create_dynamodb_table's mapping of the engine's answer to its result.
CreateResult(code) ==
  CASE code = "ok" -> "ok"
    [] code = "ResourceInUseException" -> "TableAlreadyExists"
    [] OTHER -> "error"

create_dynamodb_table(t, pk, sk) ==
  LET code == CreateTableCode(t) IN
  /\ IF code = "ok"
       THEN CreateTableEffect(t, [pk |-> pk, sk |-> sk, billing |-> "PROVISIONED"])
       ELSE UNCHANGED engine
  /\ tret' = [op |-> "create", table |-> t, res |-> CreateResult(code),
              status |-> IF code = "ok" THEN "Creating" ELSE ""]
  /\ UNCHANGED <<callers, hist, clock, fault, pending>>

DeleteResultGeneric(code) ==
  IF code = "ok" THEN "ok" ELSE "error"

\* delete_dynamodb_table's mapping of the engine's answer to its result.
DeleteResult(code) ==
  CASE code = "ok" -> "ok"
    [] code = "ResourceNotFoundException" -> "TableNotFound"
    [] OTHER -> "error"

delete_dynamodb_table(t) ==
  LET code == DeleteTableCode(t) IN
  /\ IF code = "ok" THEN DeleteTableEffect(t) ELSE UNCHANGED engine
  /\ tret' = [op |-> "delete", table |-> t, res |-> DeleteResult(code),
              status |-> ""]
  /\ UNCHANGED <<callers, hist, clock, fault, pending>>

\* describe_dynamodb_table's mapping of the engine's answer to its result.
DescribeResult(code) ==
  CASE code = "ok" -> "ok"
    [] code = "ResourceNotFoundException" -> "TableNotFound"
    [] OTHER -> "error"

describe_dynamodb_table(t) ==
  LET code == DescribeTableCode(t) IN
  /\ tret' = [op |-> "describe", table |-> t,
              res |-> DescribeResult(code),
              status |-> IF code = "ok" THEN tstatus[t] ELSE ""]
  /\ UNCHANGED <<engine, callers, hist, clock, fault, pending>>

(***************************************************************************)
(* ensure_memory_table_exists (strands_dyn_memory.py), one step per engine *)
(* call: the initial describe_table, create_table, and each poll of the    *)
(* 'table_exists' waiter.                                                  *)
(***************************************************************************)
MemoryDesc == [pk |-> "memory_id", sk |-> NoKey, billing |-> "PAY_PER_REQUEST"]
SuccessResults == {"exists", "created"}

EnsureAlwaysCreates(code) == "create"

\* Where the call goes after its describe_table.  Its try has no handler
\* but "except ClientError": any other exception leaves the function.
EnsureAfterDescribe(code) ==
  CASE code = "ok" -> "exists"
    [] code = "ResourceNotFoundException" -> "create"
    [] IsClientError(code) -> "err_describe"
    [] OTHER -> "raised"

ensure_describe(c) ==
  LET next == EnsureAfterDescribe(DescribeTableCode(MEMORY_TABLE_NAME)) IN
  /\ pc[c] = "idle"
  /\ IF next = "create"
       THEN /\ pc' = [pc EXCEPT ![c] = "create"]
            /\ UNCHANGED res
       ELSE /\ pc' = [pc EXCEPT ![c] = "done"]
            /\ res' = [res EXCEPT ![c] = next]
  /\ UNCHANGED <<engine, polls, tret, hist, clock, fault, pending>>

\* Any exception of create_table ends the call with "Error creating table".
ensure_create(c) ==
  LET code == CreateTableCode(MEMORY_TABLE_NAME) IN
  /\ pc[c] = "create"
  /\ IF code = "ok"
       THEN /\ CreateTableEffect(MEMORY_TABLE_NAME, MemoryDesc)
            /\ pc' = [pc EXCEPT ![c] = "wait"]
            /\ UNCHANGED res
       ELSE /\ UNCHANGED engine
            /\ pc' = [pc EXCEPT ![c] = "done"]
            /\ res' = [res EXCEPT ![c] = "err_create"]
  /\ UNCHANGED <<polls, tret, hist, clock, fault, pending>>

WaiterAcceptsAnyStatus(status) == status # "Absent"

\* The waiter's success acceptor: Table.TableStatus is ACTIVE.
WaiterSuccess(status) == status = "Active"

WaiterNeverExhausted(n) == FALSE

\* The waiter gives up once it has made WaiterMaxAttempts attempts.
WaiterExhausted(n) == n >= WaiterMaxAttempts

\* A poll that fails for any reason but the table's absence ends the waiter
\* with an exception, which "except Exception" turns into the error result.
ensure_wait(c) ==
  /\ pc[c] = "wait"
  /\ IF fault # "none"
       THEN /\ pc' = [pc EXCEPT ![c] = "done"]
            /\ res' = [res EXCEPT ![c] = "err_wait"]
            /\ UNCHANGED polls
     ELSE IF WaiterSuccess(tstatus[MEMORY_TABLE_NAME])
       THEN /\ pc' = [pc EXCEPT ![c] = "done"]
            /\ res' = [res EXCEPT ![c] = "created"]
            /\ UNCHANGED polls
       ELSE IF WaiterExhausted(polls[c] + 1)
         THEN /\ pc' = [pc EXCEPT ![c] = "done"]
              /\ res' = [res EXCEPT ![c] = "err_wait"]
              /\ UNCHANGED polls
         ELSE /\ polls' = [polls EXCEPT ![c] =
                            IF polls[c] < WaiterMaxAttempts
                              THEN polls[c] + 1 ELSE polls[c]]
              /\ UNCHANGED <<pc, res>>
  /\ UNCHANGED <<engine, tret, hist, clock, fault, pending>>

ensure_memory_table_exists(c) ==
  \/ ensure_describe(c)
  \/ ensure_create(c)
  \/ ensure_wait(c)

(***************************************************************************)
(* Application values: what a caller passes to a tool and gets back.       *)
(*   str, bool, null: val is the text                                      *)
(*   int:             val is the integer                                   *)
(*   float:           val is the binary number the float is, exactly, in   *)
(*                    millionths.  Floats are the multiples of 1/64: a     *)
(*                    binary format scaled down from the 53-bit one, in    *)
(*                    which 3.14 is the float 3.140625                     *)
(*   dec:             val is the exact decimal, in millionths              *)
(*   float_inf, float_nan: the floats that are no number; val is the sign  *)
(*   dec_inf, dec_nan:     the Decimals that are no number                 *)
(*   object:          an instance of a class of the caller's               *)
(*   list, map:       val is a sequence of values / a function to values   *)
(* An item is a function from attribute names to values; <<>> stands for   *)
(* "no item".                                                              *)
(***************************************************************************)
AStr(s) == [kind |-> "str", val |-> s]
AInt(n) == [kind |-> "int", val |-> n]
AFloat(h) == [kind |-> "float", val |-> h]
ADec(h) == [kind |-> "dec", val |-> h]
AInf == [kind |-> "float_inf", val |-> 1]
ANaN == [kind |-> "float_nan", val |-> 0]
AObject == [kind |-> "object", val |-> "o"]
NoItem == <<>>

\* The nearest multiple of step to x, a tie going to the even multiple.
RoundTo(step, x) ==
  LET q == x \div step
      r == x % step
  IN CASE 2 * r < step -> q * step
       [] 2 * r > step -> (q + 1) * step
       [] OTHER -> IF q % 2 = 0 THEN q * step ELSE (q + 1) * step

\* float(text): the float nearest to a decimal.
DoubleStep == Unit \div 64
RoundToDouble(x) == RoundTo(DoubleStep, x)

\* A float literal of the caller, given by its decimal text.
PyFloat(x) == AFloat(RoundToDouble(x))

\* The decimal with d fractional digits nearest to x.
Digits(d, x) == RoundTo(10^(6 - d), x)

FloatReprOneDigit(v) == Digits(1, v.val)

FloatReprExact(v) == v.val

\* str(obj) of a float: the shortest text that reads back as the same float.
\* The text is kept as the decimal it denotes, in millionths.
FloatRepr(v) ==
  LET d == CHOOSE d \in 0..6 :
             /\ RoundToDouble(Digits(d, v.val)) = v.val
             /\ \A e \in 0..(d - 1) : RoundToDouble(Digits(e, v.val)) # v.val
  IN Digits(d, v.val)

RECURSIVE _convert_floats_to_decimal(_)
\* Decimal(str(obj)) for a float ("inf" and "nan" are texts Decimal reads),
\* recursion into dicts and lists, anything else as it is.
_convert_floats_to_decimal(obj) ==
  CASE obj.kind = "float" -> ADec(FloatRepr(obj))
    [] obj.kind = "float_inf" -> [kind |-> "dec_inf", val |-> obj.val]
    [] obj.kind = "float_nan" -> [kind |-> "dec_nan", val |-> obj.val]
    [] obj.kind = "map" ->
         [kind |-> "map",
          val |-> [k \in DOMAIN obj.val |-> _convert_floats_to_decimal(obj.val[k])]]
    [] obj.kind = "list" ->
         [kind |-> "list",
          val |-> [i \in DOMAIN obj.val |-> _convert_floats_to_decimal(obj.val[i])]]
    [] OTHER -> obj

RECURSIVE _convert_decimal_to_float(_)
\* float(obj) for a Decimal, recursion into dicts and lists, anything else as
\* it is.
_convert_decimal_to_float(obj) ==
  CASE obj.kind = "dec" -> AFloat(RoundToDouble(obj.val))
    [] obj.kind = "dec_inf" -> [kind |-> "float_inf", val |-> obj.val]
    [] obj.kind = "dec_nan" -> [kind |-> "float_nan", val |-> obj.val]
    [] obj.kind = "map" ->
         [kind |-> "map",
          val |-> [k \in DOMAIN obj.val |-> _convert_decimal_to_float(obj.val[k])]]
    [] obj.kind = "list" ->
         [kind |-> "list",
          val |-> [i \in DOMAIN obj.val |-> _convert_decimal_to_float(obj.val[i])]]
    [] OTHER -> obj

\* The tools hand the item itself (a dict) to the converters.
ConvertItemToDecimal(item) ==
  [k \in DOMAIN item |-> _convert_floats_to_decimal(item[k])]
ConvertItemToFloat(item) ==
  [k \in DOMAIN item |-> _convert_decimal_to_float(item[k])]

Refused == [kind |-> "TypeError", val |-> ""]

RECURSIVE Serialize(_)
\* The resource layer's serializer inside put_item / update_item / get_item:
\* int and Decimal become the engine's number, str its string.  A float is
\* refused there, which is why the tools convert first; so are a Decimal that
\* is no number and a value of any other type, at any depth.
Serialize(v) ==
  CASE v.kind = "int" -> WN(v.val * Unit)
    [] v.kind = "dec" -> WN(v.val)
    [] v.kind = "str" -> WS(v.val)
    [] v.kind = "bool" -> [kind |-> "BOOL", val |-> v.val]
    [] v.kind = "null" -> [kind |-> "NULL", val |-> v.val]
    [] v.kind = "list" ->
         LET els == [i \in DOMAIN v.val |-> Serialize(v.val[i])]
         IN IF \E i \in DOMAIN els : els[i] = Refused
              THEN Refused ELSE [kind |-> "L", val |-> els]
    [] v.kind = "map" ->
         LET els == [k \in DOMAIN v.val |-> Serialize(v.val[k])]
         IN IF \E k \in DOMAIN els : els[k] = Refused
              THEN Refused ELSE [kind |-> "M", val |-> els]
    [] OTHER -> Refused

RECURSIVE Deserialize(_)
\* The resource layer's deserializer: every engine number comes back as a
\* Decimal.
Deserialize(w) ==
  CASE w.kind = "N" -> ADec(w.val)
    [] w.kind = "S" -> AStr(w.val)
    [] w.kind = "BOOL" -> [kind |-> "bool", val |-> w.val]
    [] w.kind = "NULL" -> [kind |-> "null", val |-> w.val]
    [] w.kind = "L" ->
         [kind |-> "list", val |-> [i \in DOMAIN w.val |-> Deserialize(w.val[i])]]
    [] OTHER ->
         [kind |-> "map", val |-> [k \in DOMAIN w.val |-> Deserialize(w.val[k])]]

SerializeItem(item) == [k \in DOMAIN item |-> Serialize(item[k])]
DeserializeItem(witem) == [k \in DOMAIN witem |-> Deserialize(witem[k])]
SerializableAlways(item) == TRUE
Serializable(item) == \A k \in DOMAIN item : Serialize(item[k]).kind # "TypeError"

(***************************************************************************)
(* The engine's item protocol.                                             *)
(***************************************************************************)
KeyAttrs(t) == {tdesc[t].pk, tdesc[t].sk} \ {NoKey}

\* The key of a stored item: its key attributes.
KeyOf(t, witem) == [k \in KeyAttrs(t) \cap DOMAIN witem |-> witem[k]]

\* The stored item with that key, or NoItem.
Stored(t, wkey) ==
  IF \E i \in titems[t] : KeyOf(t, i) = wkey
    THEN CHOOSE i \in titems[t] : KeyOf(t, i) = wkey
    ELSE NoItem

\* A table takes item requests only while it is Active.
TableServes(t) == tstatus[t] = "Active"

\* A key names every key attribute and nothing else, each one a string (the
\* tools' default key type, and the memory table's).
ValidKey(t, wkey) ==
  /\ DOMAIN wkey = KeyAttrs(t)
  /\ \A k \in DOMAIN wkey : wkey[k].kind = "S"

PutItemIgnoresStatus(t, witem) ==
  IF ValidKey(t, KeyOf(t, witem)) THEN "ok" ELSE "ValidationException"

PutItemAcceptsAnyItem(t, witem) ==
  Through(IF TableServes(t) THEN "ok" ELSE "ResourceNotFoundException")

\* PutItem: the error code, or "ok".
PutItemCode(t, witem) ==
  Through(CASE ~TableServes(t) -> "ResourceNotFoundException"
            [] ~ValidKey(t, KeyOf(t, witem)) -> "ValidationException"
            [] OTHER -> "ok")

PutItemMerges(t, witem) ==
  LET old == Stored(t, KeyOf(t, witem))
      new == [k \in DOMAIN old \cup DOMAIN witem |->
                IF k \in DOMAIN witem THEN witem[k] ELSE old[k]]
  IN (titems[t] \ {old}) \cup {new}

\* PutItem: the item replaces the one stored under its key, whole.
PutItemStore(t, witem) ==
  (titems[t] \ {Stored(t, KeyOf(t, witem))}) \cup {witem}

\* GetItem: the error code, or "ok".
GetItemCode(t, wkey) ==
  Through(CASE ~TableServes(t) -> "ResourceNotFoundException"
            [] ~ValidKey(t, wkey) -> "ValidationException"
            [] OTHER -> "ok")

\* UpdateItem with "SET #k = :k, ..." over the names of the updates: an empty
\* SET clause and a SET of a key attribute are invalid.
UpdateItemCode(t, wkey, wupdates) ==
  Through(CASE ~TableServes(t) -> "ResourceNotFoundException"
            [] ~ValidKey(t, wkey) -> "ValidationException"
            [] DOMAIN wupdates = {} -> "ValidationException"
            [] DOMAIN wupdates \cap KeyAttrs(t) # {} -> "ValidationException"
            [] OTHER -> "ok")

UpdateItemReplaces(t, wkey, wupdates) ==
  LET new == [k \in DOMAIN wkey \cup DOMAIN wupdates |->
                IF k \in DOMAIN wupdates THEN wupdates[k] ELSE wkey[k]]
  IN (titems[t] \ {Stored(t, wkey)}) \cup {new}

UpdateItemNoUpsert(t, wkey, wupdates) ==
  LET old == Stored(t, wkey)
      new == [k \in DOMAIN old \cup DOMAIN wupdates |->
                IF k \in DOMAIN wupdates THEN wupdates[k] ELSE old[k]]
  IN IF old = NoItem THEN titems[t] ELSE (titems[t] \ {old}) \cup {new}

\* UpdateItem: the named attributes are set on the stored item; when there is
\* none, on a new item that holds the key.
UpdateItemStore(t, wkey, wupdates) ==
  LET old == Stored(t, wkey)
      base == IF old = NoItem THEN wkey ELSE old
      new == [k \in DOMAIN base \cup DOMAIN wupdates |->
                IF k \in DOMAIN wupdates THEN wupdates[k] ELSE base[k]]
  IN (titems[t] \ {old}) \cup {new}

DeleteItemRequiresItem(t, wkey) ==
  CASE ~TableServes(t) -> "ResourceNotFoundException"
    [] ~ValidKey(t, wkey) -> "ValidationException"
    [] Stored(t, wkey) = NoItem -> "ConditionalCheckFailedException"
    [] OTHER -> "ok"

\* DeleteItem with no condition: the error code, or "ok".  A key under which
\* nothing is stored is no error.
DeleteItemCode(t, wkey) ==
  Through(CASE ~TableServes(t) -> "ResourceNotFoundException"
            [] ~ValidKey(t, wkey) -> "ValidationException"
            [] OTHER -> "ok")

\* DeleteItem: the item stored under the key, if any, is removed.
DeleteItemStore(t, wkey) == titems[t] \ {Stored(t, wkey)}

(***************************************************************************)
(* Item tools (strands_dynamodb.py).  hist keeps the last call and, when   *)
(* that is a read or a delete, the call before it: the tool, its           *)
(* arguments, its result                                                   *)
(* ("ok", "found", "NotFound", "error"), the item it returned, and old,    *)
(* the item the engine held under the key before the call (NoItem when the *)
(* table is absent, or when a get was refused).                            *)
(***************************************************************************)
\* The Message of the engine's error response, or the text of the exception
\* the client library raises.
EngineMessage(code) ==
  CASE code = "ResourceNotFoundException" -> "Requested resource not found"
    [] code = "ValidationException" ->
         "One or more parameter values were invalid"
    [] code = "ResourceInUseException" -> "Table already exists"
    [] code = ServiceFault -> "Internal server error"
    [] code = ConnectionFault -> "Could not connect to the endpoint URL"
    [] code = "TypeError" -> "Unsupported type"
    [] OTHER -> code

\* The text of a result that is not a failure text.
NoMsg == <<"", "">>

ErrorTextGeneric(verb, code) == <<"Error " \o verb, "">>

\* An item tool's failure text: "Error <verb>: <Message>" for an error
\* response of the engine, "Unexpected error: <text>" for any other exception.
ErrorText(verb, code) ==
  IF IsClientError(code) THEN <<"Error " \o verb, EngineMessage(code)>>
                         ELSE <<"Unexpected error", EngineMessage(code)>>

Record(op, t, key, arg, r, out, old) ==
  [op |-> op, table |-> t, key |-> key, arg |-> arg, res |-> r, out |-> out,
   old |-> old, msg |-> NoMsg]

\* A tool's record with the text of its result: the failure text when the
\* engine refused the request.
Answer(rec, verb, code) ==
  [rec EXCEPT !.msg = IF code = "ok" THEN NoMsg ELSE ErrorText(verb, code)]
IsRead(op) == op \in {"get"}
Chained(op) == IsRead(op) \/ op = "delete"
\* A read or a delete is recorded in front of the call before it; a put or an
\* update starts anew.
Push(rec) ==
  hist' = IF hist = <<>> \/ ~Chained(rec.op) THEN <<rec>> ELSE <<rec, hist[1]>>

put_dynamodb_item(t, item) ==
  LET conv == ConvertItemToDecimal(item)
      witem == SerializeItem(conv)
      code == IF Serializable(conv) THEN PutItemCode(t, witem) ELSE "TypeError"
      old == IF tstatus[t] = "Absent" THEN NoItem ELSE Stored(t, KeyOf(t, witem))
  IN
  /\ IF code = "ok"
       THEN titems' = [titems EXCEPT ![t] = PutItemStore(t, witem)]
       ELSE UNCHANGED titems
  /\ Push(Answer(Record("put", t, SerializeItem(KeyOf(t, conv)), item,
                        IF code = "ok" THEN "ok" ELSE "error", NoItem, old),
                 "putting item", code))
  /\ UNCHANGED <<tstatus, tdesc, callers, tret, clock, fault, pending>>

GetResultHidesErrors(code, found) ==
  IF code = "ok" /\ found # NoItem THEN "found" ELSE "NotFound"

\* get_dynamodb_item's result: "Error getting item" for an engine error, "No
\* item found" for an answer without an Item, the item otherwise.
GetResult(code, found) ==
  CASE code # "ok" -> "error"
    [] found = NoItem -> "NotFound"
    [] OTHER -> "found"

get_dynamodb_item(t, key) ==
  LET wkey == SerializeItem(key)
      code == GetItemCode(t, wkey)
      found == IF code = "ok" THEN Stored(t, wkey) ELSE NoItem
  IN
  /\ Push(Answer(Record("get", t, wkey, NoItem, GetResult(code, found),
                        IF found = NoItem THEN NoItem
                          ELSE ConvertItemToFloat(DeserializeItem(found)),
                        found),
                 "getting item", code))
  /\ UNCHANGED <<engine, callers, tret, clock, fault, pending>>

update_dynamodb_item(t, key, updates) ==
  LET conv == ConvertItemToDecimal(updates)
      wkey == SerializeItem(key)
      wupdates == SerializeItem(conv)
      code == IF Serializable(conv) THEN UpdateItemCode(t, wkey, wupdates)
                                    ELSE "TypeError"
      old == IF tstatus[t] = "Absent" THEN NoItem ELSE Stored(t, wkey)
  IN
  /\ IF code = "ok"
       THEN titems' = [titems EXCEPT ![t] = UpdateItemStore(t, wkey, wupdates)]
       ELSE UNCHANGED titems
  /\ Push(Answer(Record("update", t, wkey, updates,
                        IF code = "ok" THEN "ok" ELSE "error", NoItem, old),
                 "updating item", code))
  /\ UNCHANGED <<tstatus, tdesc, callers, tret, clock, fault, pending>>

delete_dynamodb_item(t, key) ==
  LET wkey == SerializeItem(key)
      code == DeleteItemCode(t, wkey)
      old == IF tstatus[t] = "Absent" THEN NoItem ELSE Stored(t, wkey)
  IN
  /\ IF code = "ok"
       THEN titems' = [titems EXCEPT ![t] = DeleteItemStore(t, wkey)]
       ELSE UNCHANGED titems
  /\ Push(Answer(Record("delete", t, wkey, NoItem,
                        IF code = "ok" THEN "ok" ELSE "error", NoItem, old),
                 "deleting item", code))
  /\ UNCHANGED <<tstatus, tdesc, callers, tret, clock, fault, pending>>

\* The filter expressions of the calls: none, or one that names an attribute.
NoFilter == ""
FilterHasA == "attribute_exists(a)"

\* An item passes the filter expression.
Satisfies(witem, filter) ==
  \/ filter = NoFilter
  \/ filter = FilterHasA /\ "a" \in DOMAIN witem

\* The engine's Scan answers with one page: at most Limit items, and no more
\* than fit in a page, in an order of the engine's own.
ScanPageItems == 2
Min(a, b) == IF a < b THEN a ELSE b
ScanCode(t) ==
  Through(IF TableServes(t) THEN "ok" ELSE "ResourceNotFoundException")
ScanPages(t, limit) ==
  {S \in SUBSET titems[t] :
     Cardinality(S) = Min(Cardinality(titems[t]), Min(limit, ScanPageItems))}

ScanUnfiltered(page, filter) == page

\* The FilterExpression is applied to the items evaluated, after the Limit.
ScanFiltered(page, filter) == {i \in page : Satisfies(i, filter)}

\* What a read leaves in the table: the items it held.
ReadConsumes(t, returned) == titems[t] \ returned

ReadLeaves(t, returned) == titems[t]

scan_dynamodb_table(t, limit, filter) ==
  LET code == ScanCode(t) IN
  \E page \in IF code = "ok" THEN ScanPages(t, limit) ELSE {{}} :
    LET items == ScanFiltered(page, filter) IN
    /\ IF code = "ok"
         THEN titems' = [titems EXCEPT ![t] = ReadLeaves(t, items)]
         ELSE UNCHANGED titems
    /\ Push(Answer(Record("scan", t, <<>>, [limit |-> limit, filter |-> filter],
                          CASE code # "ok" -> "error"
                            [] items = {} -> "NoItems"
                            [] OTHER -> "ok",
                          {ConvertItemToFloat(DeserializeItem(i)) : i \in items},
                          NoItem),
                   "scanning table", code))
    /\ UNCHANGED <<tstatus, tdesc, callers, tret, clock, fault, pending>>

\* Query: the error code, or "ok". The key condition names the table's
\* partition key and compares it with a value of the key's type.
QueryCode(t, pkname, wvalue) ==
  Through(CASE ~TableServes(t) -> "ResourceNotFoundException"
            [] pkname # tdesc[t].pk \/ wvalue.kind # "S" -> "ValidationException"
            [] OTHER -> "ok")

QueryMatchesAll(t, pkname, wvalue) == titems[t]

\* The items the key condition selects.
QueryMatches(t, pkname, wvalue) == {i \in titems[t] : i[pkname] = wvalue}

\* Query with Limit: at most Limit of the selected items, and at most a page
\* (the engine takes them in sort-key order; any choice of them is allowed
\* here).
QueryAnswers(t, pkname, wvalue, limit) ==
  LET all == QueryMatches(t, pkname, wvalue) IN
  {ans \in SUBSET all :
     Cardinality(ans) = Min(Cardinality(all), Min(limit, ScanPageItems))}

query_dynamodb_table(t, partition_key_name, partition_key_value, limit) ==
  LET wvalue == Serialize(AStr(partition_key_value))
      code == QueryCode(t, partition_key_name, wvalue)
  IN
  \E items \in IF code = "ok"
                 THEN QueryAnswers(t, partition_key_name, wvalue, limit)
                 ELSE {{}} :
    /\ IF code = "ok"
         THEN titems' = [titems EXCEPT ![t] = ReadLeaves(t, items)]
         ELSE UNCHANGED titems
    /\ Push(Answer(Record("query", t,
                          [name |-> partition_key_name, value |-> wvalue],
                          [limit |-> limit],
                          CASE code # "ok" -> "error"
                            [] items = {} -> "NoItems"
                            [] OTHER -> "ok",
                          {ConvertItemToFloat(DeserializeItem(i)) : i \in items},
                          NoItem),
                   "querying table", code))
    /\ UNCHANGED <<tstatus, tdesc, callers, tret, clock, fault, pending>>

\* ListTables: the error code, or "ok".
ListTablesCode == Through("ok")

\* The names the engine lists: every table it has, in any status.
ListedTables == {t \in TableNames : tstatus[t] # "Absent"}

list_dynamodb_tables ==
  LET code == ListTablesCode
      tables == IF code = "ok" THEN ListedTables ELSE {}
  IN
  /\ Push(Answer(Record("tables", "", NoItem, NoItem,
                        CASE code # "ok" -> "error"
                          [] tables = {} -> "NoTables"
                          [] OTHER -> "ok",
                        tables, NoItem),
                 "listing tables", code))
  /\ UNCHANGED <<engine, callers, tret, clock, fault, pending>>

(***************************************************************************)
(* put_dynamodb_item called by several writers at once, in two steps: the  *)
(* tool converts the item and sends the request; the engine applies it, as *)
(* one write, and the tool returns.  A request holds the order in which it *)
(* was sent, and once applied the order in which it was applied.           *)
(***************************************************************************)
SentSoFar == Cardinality({w \in Callers : pending[w].state # "idle"})
AppliedSoFar == Cardinality({w \in Callers : pending[w].state = "done"})

put_send(w, t, item) ==
  LET conv == ConvertItemToDecimal(item) IN
  /\ pending[w].state = "idle"
  /\ Serializable(conv)
  /\ pending' = [pending EXCEPT ![w] =
                   [state |-> "sent", table |-> t, item |-> item,
                    witem |-> SerializeItem(conv), sent |-> SentSoFar + 1,
                    applied |-> 0, res |-> ""]]
  /\ UNCHANGED <<engine, callers, tret, hist, clock, fault>>

put_apply(w) ==
  LET req == pending[w]
      code == PutItemCode(req.table, req.witem)
  IN
  /\ req.state = "sent"
  /\ IF code = "ok"
       THEN titems' = [titems EXCEPT ![req.table] = PutItemStore(req.table, req.witem)]
       ELSE UNCHANGED titems
  /\ pending' = [pending EXCEPT ![w] =
                   [req EXCEPT !.state = "done", !.applied = AppliedSoFar + 1,
                               !.res = IF code = "ok" THEN "ok" ELSE "error"]]
  /\ UNCHANGED <<tstatus, tdesc, callers, tret, hist, clock, fault>>

(***************************************************************************)
(* The converters called on their own, on an item of the caller's: the     *)
(* call to _convert_floats_to_decimal, and _convert_decimal_to_float on    *)
(* what it returned.                                                       *)
(***************************************************************************)
convert_floats_to_decimal(item) ==
  /\ hist' = <<Record("to_decimal", "", NoItem, item, "ok",
                       ConvertItemToDecimal(item), NoItem)>>
  /\ UNCHANGED <<engine, callers, tret, clock, fault, pending>>

convert_decimal_to_float ==
  /\ hist # <<>> /\ hist[1].op = "to_decimal"
  /\ hist' = <<Record("to_float", "", NoItem, hist[1].out, "ok",
                       ConvertItemToFloat(hist[1].out), NoItem), hist[1]>>
  /\ UNCHANGED <<engine, callers, tret, clock, fault, pending>>

(***************************************************************************)
(* Specifications.                                                         *)
(***************************************************************************)
\* A table as the tools may find it when they start: absent, or active with
\* an item stored in it.
PreloadedItem(t) ==
  IF t = MEMORY_TABLE_NAME THEN [memory_id |-> WS("mem_1"), tldr |-> WS("x")]
                           ELSE [id |-> WS("1"), a |-> WN(Unit)]
PreloadedDesc(t) ==
  IF t = MEMORY_TABLE_NAME THEN MemoryDesc
                           ELSE [pk |-> "id", sk |-> NoKey, billing |-> "PROVISIONED"]

InitCallers ==
  /\ pc = [c \in Callers |-> "idle"]
  /\ polls = [c \in Callers |-> 0]
  /\ res = [c \in Callers |-> ""]

Init ==
  /\ tstatus \in [TableNames -> {"Absent", "Active"}]
  /\ tdesc = [t \in TableNames |->
                IF tstatus[t] = "Active" THEN PreloadedDesc(t) ELSE NoDesc]
  /\ titems = [t \in TableNames |->
                IF tstatus[t] = "Active" THEN {PreloadedItem(t)} ELSE {}]
  /\ InitCallers
  /\ tret = NoRet
  /\ hist = <<>>
  /\ clock = 1
  /\ fault = "none"
  /\ pending = [w \in Callers |-> NoRequest]

Next ==
  \/ \E c \in Callers : ensure_memory_table_exists(c)
  \/ \E t \in TableNames : create_dynamodb_table(t, "id", NoKey)
  \/ \E t \in TableNames : delete_dynamodb_table(t)
  \/ \E t \in TableNames : describe_dynamodb_table(t)
  \/ \E t \in TableNames : EngineProgress(t)

Spec == Init /\ [][Next]_vars


\* ensure_memory_table_exists called by several callers at once, with no other
\* tool creating tables; the memory table may be deleted by its owner.
EnsureNext ==
  \/ \E c \in Callers : ensure_memory_table_exists(c)
  \/ delete_dynamodb_table(MEMORY_TABLE_NAME)
  \/ EngineProgress(MEMORY_TABLE_NAME)

EnsureSpec == Init /\ [][EnsureNext]_vars

\* A caller inside ensure_memory_table_exists keeps running: each of its
\* engine calls and each sleep of its waiter returns.  Nothing is assumed of
\* the engine's progress.
EnsureLiveSpec ==
  EnsureSpec /\ \A c \in Callers : WF_vars(ensure_memory_table_exists(c))

(***************************************************************************)
(* Claims about the table lifecycle.                                       *)
(***************************************************************************)
Done(c) == pc[c] = "done"
Returns(c) == pc[c] # "done" /\ pc'[c] = "done"

\* C1 (as claimed): when several callers run ensure_memory_table_exists at
\* once for the absent memory table, no caller is returned the error of a
\* create_table that was rejected because the table already exists.
C1_NoCallerSeesCreateRejected ==
  \A c \in Callers : Done(c) => res[c] # "err_create"

C3_EnsureTerminates ==
  \A c \in Callers :
     /\ (pc[c] = "create") ~> (pc[c] \in {"wait", "done"})
     /\ (pc[c] = "wait") ~> (Done(c) /\ res[c] \in {"created", "err_wait"})

C3_Witness ==
  \E c \in Callers :
     /\ Done(c) /\ res[c] = "err_wait"
     /\ polls[c] = WaiterMaxAttempts - 1
     /\ tstatus[MEMORY_TABLE_NAME] = "Creating"

\* C4: ensure_memory_table_exists on a table that exists returns "already
\* exists" from its describe_table step, without passing through create_table,
\* and leaves the engine's tables, descriptors and items as they were.
C4_EnsureOnExistingIsNoOp ==
  [][\A c \in Callers :
       (pc[c] = "idle" /\ pc'[c] # "idle" /\ tstatus[MEMORY_TABLE_NAME] # "Absent")
         => /\ pc'[c] = "done"
            /\ res'[c] = "exists"
            /\ UNCHANGED engine]_vars

C4_Witness ==
  \E c \in Callers :
     /\ Done(c) /\ res[c] = "exists"
     /\ tstatus[MEMORY_TABLE_NAME] = "Active"
     /\ titems[MEMORY_TABLE_NAME] # {}

Lifecycle ==
  { <<"Absent", "Creating">>, <<"Creating", "Active">>,
    <<"Active", "Deleting">>, <<"Deleting", "Absent">> }

C6_CreateExistingRejected ==
  [][\A t \in TableNames :
       create_dynamodb_table(t, "id", NoKey)
         => IF tstatus[t] # "Absent"
              THEN tret'.res = "TableAlreadyExists" /\ UNCHANGED engine
              ELSE /\ tret'.res = "ok" /\ tret'.status = "Creating"
                   /\ tstatus'[t] = "Creating"
                   /\ \A u \in TableNames \ {t} :
                        /\ tstatus'[u] = tstatus[u]
                        /\ tdesc'[u] = tdesc[u]
                        /\ titems'[u] = titems[u]]_vars

C6_Witness ==
  /\ tret.op = "create" /\ tret.res = "TableAlreadyExists"
  /\ tstatus[tret.table] = "Deleting"
  /\ titems[tret.table] # {}

\* C7 (as claimed): delete_dynamodb_table returns TableNotFound for a name
\* with no table and changes nothing; for every present table it starts the
\* deletion.
C7_DeletePresentStartsDeletion ==
  [][\A t \in TableNames :
       delete_dynamodb_table(t)
         => IF tstatus[t] = "Absent"
              THEN tret'.res = "TableNotFound" /\ UNCHANGED engine
              ELSE tret'.res = "ok" /\ tstatus'[t] = "Deleting"]_vars

\* C7 (amended): delete_dynamodb_table returns TableNotFound for a name with
\* no table and changes nothing; for an Active table it starts the deletion
\* and returns with the table Deleting, its items still stored; a table that
\* is still Creating is refused as in use (an error result, nothing changed);
\* a table already Deleting gives success and changes nothing.
C7_DeleteByStatus ==
  [][\A t \in TableNames :
       delete_dynamodb_table(t)
         => CASE tstatus[t] = "Absent" ->
                   tret'.res = "TableNotFound" /\ UNCHANGED engine
              [] tstatus[t] = "Creating" ->
                   tret'.res = "error" /\ UNCHANGED engine
              [] tstatus[t] = "Deleting" ->
                   tret'.res = "ok" /\ UNCHANGED engine
              [] OTHER ->
                   /\ tret'.res = "ok"
                   /\ tstatus' = [tstatus EXCEPT ![t] = "Deleting"]
                   /\ UNCHANGED <<tdesc, titems>>]_vars

C7_Witness ==
  /\ tret.op = "delete" /\ tret.res = "ok"
  /\ tstatus[tret.table] = "Deleting"
  /\ titems[tret.table] # {}

(***************************************************************************)
(* The item tools on one active table.                                     *)
(***************************************************************************)
ItemTable == OtherTable
KeyValues == {"1", "2"}
AValues == {AInt(1), PyFloat(3140000)}
BValues == {AInt(2), AInt(3)}

\* The attribute maps over a and b, the empty one included.
AttrMaps ==
  {<<>>}
  \cup {[a |-> x] : x \in AValues}
  \cup {[b |-> y] : y \in BValues}
  \cup {[a |-> x, b |-> y] : x \in AValues, y \in BValues}

Keys == {[id |-> AStr(k)] : k \in KeyValues}
WithKey(key, m) ==
  [k \in DOMAIN key \cup DOMAIN m |-> IF k \in DOMAIN key THEN key[k] ELSE m[k]]
Items == {WithKey(key, m) : key \in Keys, m \in AttrMaps}
\* Updates: attribute maps, and one that names the key attribute.
Updates == AttrMaps \cup {[id |-> AStr("1")]}

ItemInit ==
  /\ tstatus = [t \in TableNames |-> IF t = ItemTable THEN "Active" ELSE "Absent"]
  /\ tdesc = [t \in TableNames |->
                IF t = ItemTable THEN PreloadedDesc(t) ELSE NoDesc]
  /\ titems = [t \in TableNames |-> {}]
  /\ InitCallers
  /\ tret = NoRet
  /\ hist = <<>>
  /\ clock = 1
  /\ fault = "none"
  /\ pending = [w \in Callers |-> NoRequest]

ItemNext ==
  \/ \E item \in Items : put_dynamodb_item(ItemTable, item)
  \/ \E key \in Keys : get_dynamodb_item(ItemTable, key)
  \/ \E key \in Keys, updates \in Updates :
       update_dynamodb_item(ItemTable, key, updates)
  \/ \E key \in Keys : delete_dynamodb_item(ItemTable, key)

ItemSpec == ItemInit /\ [][ItemNext]_vars

\* The item tools on a table that is created and deleted meanwhile.  Keys
\* asked for include one that names an attribute which is no key.
ServedItems == {WithKey(key, m) : key \in Keys, m \in {<<>>, [a |-> AInt(1)]}}
AskedKeys == Keys \cup {[a |-> AStr("1")]}

ServedNext ==
  \/ \E item \in ServedItems : put_dynamodb_item(ItemTable, item)
  \/ \E key \in AskedKeys : get_dynamodb_item(ItemTable, key)
  \/ \E key \in Keys : delete_dynamodb_item(ItemTable, key)
  \/ create_dynamodb_table(ItemTable, "id", NoKey)
  \/ delete_dynamodb_table(ItemTable)
  \/ EngineProgress(ItemTable)

ServedSpec == ItemInit /\ [][ServedNext]_vars

(***************************************************************************)
(* The converters and the tools on nested values.                          *)
(***************************************************************************)
AList(seq) == [kind |-> "list", val |-> seq]
AMap(f) == [kind |-> "map", val |-> f]

\* The values of the closed set, without nesting: 3.14, 2.0, 0.1 and -3.14 are
\* the floats.
Scalars ==
  {AStr("a"), [kind |-> "bool", val |-> TRUE], [kind |-> "null", val |-> TRUE],
   AInt(1), AInt(0 - 2), PyFloat(3140000), PyFloat(2000000), PyFloat(100000),
   PyFloat(0 - 3140000)}
\* Values outside it.
Outsiders == {AInf, ANaN, AObject}
Leaves == Scalars \cup Outsiders

\* Lists and mappings of them, nested up to three deep.
CodecValues ==
  Leaves
  \cup {AList(<<x>>) : x \in Leaves}
  \cup {AList(<<AInt(1), x>>) : x \in Leaves}
  \cup {AMap([m |-> x]) : x \in Leaves}
  \cup {AMap([m |-> x, n |-> PyFloat(3140000)]) : x \in Leaves}
  \cup {AMap([m |-> AList(<<x>>)]) : x \in Leaves}
  \cup {AList(<<AStr("a"), AMap([m |-> x])>>) : x \in Leaves}
  \cup {AMap([m |-> AMap([n |-> AList(<<x, x>>)])]) : x \in Leaves}
CodecItems == {[score |-> v] : v \in CodecValues}

\* What is put and updated: floats and outsiders at each depth.
DeepValues ==
  {PyFloat(3140000), AInt(1), AInf,
   AList(<<AInt(1), PyFloat(3140000)>>), AList(<<AInt(1), ANaN>>),
   AMap([m |-> AList(<<PyFloat(100000)>>)]), AMap([m |-> AList(<<AObject>>)])}
DeepMaps == {[score |-> v] : v \in DeepValues}
KeyOne == [id |-> AStr("1")]

CodecNext ==
  \/ \E item \in CodecItems : convert_floats_to_decimal(item)
  \/ convert_decimal_to_float
  \/ \E m \in DeepMaps : put_dynamodb_item(ItemTable, WithKey(KeyOne, m))
  \/ \E m \in DeepMaps : update_dynamodb_item(ItemTable, KeyOne, m)
  \/ get_dynamodb_item(ItemTable, KeyOne)

CodecSpec == ItemInit /\ [][CodecNext]_vars

(***************************************************************************)
(* Claims about the item tools.  Values are compared as the tools show     *)
(* them: numbers by the float they read as (1, 1.0 and the decimal 1 are   *)
(* equal; the decimal 3.14 reads as the float 3.14), everything else by    *)
(* kind and content.                                                       *)
(***************************************************************************)
RECURSIVE Canon(_)
Canon(v) ==
  CASE v.kind = "float" -> [kind |-> "number", val |-> v.val]
    [] v.kind \in {"dec", "N"} -> [kind |-> "number", val |-> RoundToDouble(v.val)]
    [] v.kind = "int" -> [kind |-> "number", val |-> v.val * Unit]
    [] v.kind \in {"str", "S"} -> [kind |-> "text", val |-> v.val]
    [] v.kind \in {"bool", "BOOL"} -> [kind |-> "bool", val |-> v.val]
    [] v.kind \in {"null", "NULL"} -> [kind |-> "null", val |-> v.val]
    [] v.kind \in {"list", "L"} ->
         [kind |-> "list", val |-> [i \in DOMAIN v.val |-> Canon(v.val[i])]]
    [] OTHER ->
         [kind |-> "map", val |-> [k \in DOMAIN v.val |-> Canon(v.val[k])]]

SameItem(x, y) ==
  /\ DOMAIN x = DOMAIN y
  /\ \A k \in DOMAIN x : Canon(x[k]) = Canon(y[k])

Last == hist[1]
Before == hist[2]
ReadAfter(readOp, writeOp) ==
  /\ Len(hist) = 2
  /\ Last.op = readOp /\ Before.op = writeOp
  /\ Last.table = Before.table /\ Last.key = Before.key

\* Updates the engine accepts: at least one attribute, none of them a key.
ValidUpdates(t, updates) ==
  DOMAIN updates # {} /\ DOMAIN updates \cap KeyAttrs(t) = {}

\* C8: a Put of item B, whatever item A was stored under its key before,
\* followed by a Get of that key returns B: the same attributes with equal
\* values, and none of the attributes that only A had.
C8_PutReplacesWholeItem ==
  /\ (hist # <<>> /\ Last.op = "put" /\ Last.res = "ok")
       => SameItem(Stored(Last.table, Last.key), Last.arg)
  /\ (ReadAfter("get", "put") /\ Before.res = "ok")
       => /\ Last.res = "found"
          /\ SameItem(Last.out, Before.arg)
          /\ DOMAIN Last.out = DOMAIN Before.arg

C8_Witness ==
  /\ ReadAfter("get", "put") /\ Before.res = "ok"
  /\ Before.old # NoItem
  /\ DOMAIN Before.old \ DOMAIN Before.arg # {}
  /\ DOMAIN Before.arg \ DOMAIN Before.old # {}
  /\ Last.res = "found"

\* The item Update is to leave under the key: the named attributes at their
\* new values, every other attribute of base as it was.
Merged(base, updates) ==
  [k \in DOMAIN base \cup DOMAIN updates |->
     IF k \in DOMAIN updates THEN updates[k] ELSE base[k]]

UpdateOfExistingMerges ==
  (hist # <<>> /\ Last.op = "update" /\ Last.old # NoItem
     /\ ValidUpdates(Last.table, Last.arg))
    => /\ Last.res = "ok"
       /\ SameItem(Stored(Last.table, Last.key), Merged(Last.old, Last.arg))
       /\ \A k \in DOMAIN Last.old \ DOMAIN Last.arg :
            Stored(Last.table, Last.key)[k] = Last.old[k]

GetAfterUpdateReturnsMerged ==
  (ReadAfter("get", "update") /\ Before.old # NoItem
     /\ ValidUpdates(Before.table, Before.arg))
    => /\ Last.res = "found"
       /\ SameItem(Last.out, Merged(Before.old, Before.arg))

\* Every step records the call it makes at the head of hist.
UpdateLeavesOtherItems ==
  (hist' # <<>> /\ hist'[1].op = "update")
    => LET t == hist'[1].table
           wkey == hist'[1].key
       IN /\ {i \in titems[t] : KeyOf(t, i) # wkey}
               = {i \in titems'[t] : KeyOf(t, i) # wkey}
          /\ \A u \in TableNames \ {t} : titems'[u] = titems[u]
          /\ UNCHANGED <<tstatus, tdesc>>

\* C9: an Update with valid updates of a key that has an item succeeds, sets
\* exactly the named attributes, leaves the item's other attributes and all
\* other items of the table as they were, and a Get of the key then returns
\* the merged item.
C9_UpdateMergesNamedAttributes ==
  /\ [](UpdateOfExistingMerges /\ GetAfterUpdateReturnsMerged)
  /\ [][UpdateLeavesOtherItems]_vars

\* Put {a:1, b:2}, Update {b:3}, Get gives {a:1, b:3}, while another item is
\* stored in the table.
C9_Witness ==
  /\ ReadAfter("get", "update")
  /\ SameItem(Before.old, [id |-> AStr("1"), a |-> AInt(1), b |-> AInt(2)])
  /\ Before.arg = [b |-> AInt(3)]
  /\ SameItem(Last.out, [id |-> AStr("1"), a |-> AInt(1), b |-> AInt(3)])
  /\ Cardinality(titems[ItemTable]) = 2

\* C10: an Update with valid updates of a key that has no item succeeds and
\* creates the item that holds exactly the key attributes and the updates; a
\* Get of the key then returns that item.
C10_UpdateOfMissingItemUpserts ==
  /\ (hist # <<>> /\ Last.op = "update" /\ Last.old = NoItem
        /\ ValidUpdates(Last.table, Last.arg))
       => /\ Last.res = "ok"
          /\ SameItem(Stored(Last.table, Last.key), Merged(Last.key, Last.arg))
  /\ (ReadAfter("get", "update") /\ Before.old = NoItem
        /\ ValidUpdates(Before.table, Before.arg))
       => /\ Last.res = "found"
          /\ SameItem(Last.out, Merged(Before.key, Before.arg))
          /\ DOMAIN Last.out = DOMAIN Before.key \cup DOMAIN Before.arg

C10_Witness ==
  /\ ReadAfter("get", "update") /\ Before.old = NoItem
  /\ Before.arg = [a |-> PyFloat(3140000)]
  /\ Last.res = "found"
  /\ DOMAIN Last.out = {"id", "a"}

\* C11: a delete of a key under which nothing is stored returns success and
\* stores nothing; of two deletes of one key in a row both return success,
\* and the second leaves the table as the first left it.
DeleteOfMissingSucceeds ==
  (hist # <<>> /\ Last.op = "delete" /\ Last.old = NoItem)
    => (Last.res = "ok" /\ Stored(Last.table, Last.key) = NoItem)

SecondDeleteSameResult ==
  (Len(hist) = 2 /\ Last.op = "delete" /\ Before.op = "delete"
     /\ Last.key = Before.key)
    => (Before.res = "ok" /\ Last.res = "ok" /\ Last.old = NoItem)

SecondDeleteChangesNothing ==
  (hist # <<>> /\ hist[1].op = "delete" /\ hist' # hist
     /\ hist'[1].op = "delete" /\ hist'[1].key = hist[1].key)
    => titems' = titems

C11_DeleteIsIdempotent ==
  /\ [](DeleteOfMissingSucceeds /\ SecondDeleteSameResult)
  /\ [][SecondDeleteChangesNothing]_vars

\* An item is stored, deleted, and deleted again.
C11_Witness ==
  /\ Len(hist) = 2 /\ Last.op = "delete" /\ Before.op = "delete"
  /\ Last.key = Before.key
  /\ Before.old # NoItem
  /\ titems[ItemTable] # {}

\* C12: a get of a key returns the stored item when the table holds one
\* under it and NotFound when it holds none; whenever the engine refuses the
\* read (the table is not serving although it may still hold the item, or
\* the key is malformed) the result is an error and never NotFound.
GetStep == hist' # hist /\ hist'[1].op = "get"

GetAnswers ==
  LET r == hist'[1]
      item == Stored(r.table, r.key)
      readable == TableServes(r.table) /\ ValidKey(r.table, r.key)
  IN /\ (readable /\ item # NoItem)
          => (r.res = "found" /\ SameItem(r.out, item))
     /\ (readable /\ item = NoItem) => (r.res = "NotFound" /\ r.out = NoItem)
     /\ ~readable => (r.res = "error" /\ r.out = NoItem)

C12_GetFoundNotFoundOrError == [][GetStep => GetAnswers]_vars

\* A get was refused while the table, being deleted, still held the item; and
\* before that, a get of a key with no item was answered NotFound.
C12_Witness ==
  /\ Len(hist) = 2 /\ Last.op = "get" /\ Last.res = "error"
  /\ tstatus[ItemTable] = "Deleting"
  /\ Stored(ItemTable, Last.key) # NoItem
  /\ Before.op = "get" /\ Before.res = "NotFound"

(***************************************************************************)
(* Writers that put at the same time.                                      *)
(***************************************************************************)
ConcItems ==
  {WithKey(key, m) : key \in Keys,
                     m \in {<<>>, [a |-> AInt(1)], [b |-> AInt(2)],
                            [a |-> PyFloat(3140000), b |-> AInt(3)]}}

ConcNext ==
  \/ \E w \in Callers, item \in ConcItems : put_send(w, ItemTable, item)
  \/ \E w \in Callers : put_apply(w)

ConcSpec == ItemInit /\ [][ConcNext]_vars

(***************************************************************************)
(* Claims about the converters.                                            *)
(***************************************************************************)
RECURSIVE InClosedSet(_)
\* A value of the closed set: no float that is no number and no object of
\* the caller's, at any depth.
InClosedSet(v) ==
  CASE v.kind \in {"float_inf", "float_nan", "dec_inf", "dec_nan", "object"} -> FALSE
    [] v.kind = "list" -> \A i \in DOMAIN v.val : InClosedSet(v.val[i])
    [] v.kind = "map" -> \A k \in DOMAIN v.val : InClosedSet(v.val[k])
    [] OTHER -> TRUE
ItemInClosedSet(item) == \A k \in DOMAIN item : InClosedSet(item[k])

RoundTrip ==
  /\ Len(hist) = 2
  /\ Last.op = "to_float" /\ Before.op = "to_decimal"

\* C13: _convert_decimal_to_float of _convert_floats_to_decimal of a value
\* built from strings, booleans, null, integers, floats, lists and mappings
\* is that value: every number the same number of the same kind, every list
\* in its order, every mapping with its keys.
C13_RoundTripIsIdentity ==
  (RoundTrip /\ ItemInClosedSet(Before.arg)) => Last.out = Before.arg

\* The round trip of a mapping that holds a list of two floats.
C13_Witness ==
  /\ RoundTrip
  /\ Before.arg = [score |-> AMap([m |-> AMap([n |->
                      AList(<<PyFloat(100000), PyFloat(100000)>>)])])]
  /\ Before.out # Before.arg

\* C14 (as claimed): _convert_floats_to_decimal called on a value that holds,
\* at any depth, a float that is no number or an object of the caller's
\* fails; it never returns the value unchanged or converted.
C14_ConverterRefusesOutsiders ==
  (hist # <<>> /\ Last.op = "to_decimal" /\ ~ItemInClosedSet(Last.arg))
    => Last.res = "error"

\* C14 (amended): _convert_floats_to_decimal returns such a value, the object
\* as it is and the float as the Decimal that is no number; it is the put or
\* the update given the value that returns an error, and nothing of it
\* reaches the table: the item stored under the key stays as it was.
ConverterPassesOutsiders ==
  (hist # <<>> /\ Last.op = "to_decimal" /\ ~ItemInClosedSet(Last.arg))
    => (Last.res = "ok" /\ ~ItemInClosedSet(Last.out))

WriteOfOutsiderRefused ==
  (hist # <<>> /\ Last.op \in {"put", "update"} /\ ~ItemInClosedSet(Last.arg))
    => (Last.res = "error" /\ Stored(Last.table, Last.key) = Last.old)

NothingRefusedIsStored ==
  \A t \in TableNames : \A i \in titems[t] : \A k \in DOMAIN i : i[k] # Refused

C14_OutsidersRefusedAtTheWrite ==
  ConverterPassesOutsiders /\ WriteOfOutsiderRefused /\ NothingRefusedIsStored

\* An update with an object inside a list inside a mapping was refused, and
\* the item stored before is still there.
C14_Witness ==
  /\ hist # <<>> /\ Last.op = "update" /\ Last.res = "error"
  /\ Last.arg = [score |-> AMap([m |-> AList(<<AObject>>)])]
  /\ Last.old # NoItem
  /\ Stored(ItemTable, Last.key) = Last.old

\* The decimal d is the shortest text of the float f: it reads back as f, and
\* no decimal with fewer fractional digits does.
IsShortestText(f, d) ==
  \E k \in 0..6 :
     /\ d = Digits(k, f)
     /\ RoundToDouble(d) = f
     /\ \A e \in 0..(k - 1) : RoundToDouble(Digits(e, f)) # f

RECURSIVE FloatsStoredAsText(_, _)
\* Every float of the value v is, in the stored value w, the number that is
\* its shortest text.
FloatsStoredAsText(v, w) ==
  CASE v.kind = "float" -> w.kind = "N" /\ IsShortestText(v.val, w.val)
    [] v.kind = "list" ->
         /\ w.kind = "L" /\ DOMAIN w.val = DOMAIN v.val
         /\ \A i \in DOMAIN v.val : FloatsStoredAsText(v.val[i], w.val[i])
    [] v.kind = "map" ->
         /\ w.kind = "M" /\ DOMAIN w.val = DOMAIN v.val
         /\ \A k \in DOMAIN v.val : FloatsStoredAsText(v.val[k], w.val[k])
    [] OTHER -> TRUE

\* C15: after a put or an update that succeeded, every float of its item, at
\* any depth, is stored as the exact decimal of its shortest text; the float
\* 3.14 is stored as the decimal 3.14 and not as the binary number the float
\* is.
C15_FloatsStoredAsShortestDecimal ==
  (hist # <<>> /\ Last.op \in {"put", "update"} /\ Last.res = "ok")
    => LET stored == Stored(Last.table, Last.key) IN
       /\ \A k \in DOMAIN Last.arg : FloatsStoredAsText(Last.arg[k], stored[k])
       /\ Last.arg.score = PyFloat(3140000) => stored.score = WN(3140000)

\* Put({id: "1", score: 3.14}) stored the decimal 3.14, and an update then
\* stored the float 0.1 inside a list inside a mapping.
C15_Witness ==
  /\ hist # <<>> /\ Last.op = "update" /\ Last.res = "ok"
  /\ Last.old = [id |-> WS("1"), score |-> WN(3140000)]
  /\ Last.arg = [score |-> AMap([m |-> AList(<<PyFloat(100000)>>)])]
  /\ Stored(ItemTable, Last.key).score.val.m.val[1] = WN(100000)

(***************************************************************************)
(* Memory tools (strands_dyn_memory.py).  A text that the tools take apart *)
(* (an id, a hashtag) is the sequence of its characters.                   *)
(***************************************************************************)
\* The instants the clock shows, in order: the last two microseconds of a
\* year, the first of the next, and instants on both sides of a change of
\* minute.
Instants ==
  << [date |-> <<2024, 12, 31>>, time |-> <<23, 59, 59>>, us |-> 999998],
     [date |-> <<2024, 12, 31>>, time |-> <<23, 59, 59>>, us |-> 999999],
     [date |-> <<2025, 1, 1>>, time |-> <<0, 0, 0>>, us |-> 0],
     [date |-> <<2025, 1, 1>>, time |-> <<0, 0, 59>>, us |-> 123456],
     [date |-> <<2025, 1, 1>>, time |-> <<0, 1, 0>>, us |-> 7] >>

DigitChars == <<"0", "1", "2", "3", "4", "5", "6", "7", "8", "9">>

\* The number n in w digits, zero-padded (strftime's %Y %m %d %H %M %S %f).
Pad(n, w) == [i \in 1..w |-> DigitChars[((n \div 10^(w - i)) % 10) + 1]]

DateDigits(now) == Pad(now.date[1], 4) \o Pad(now.date[2], 2) \o Pad(now.date[3], 2)
TimeDigits(now) == Pad(now.time[1], 2) \o Pad(now.time[2], 2) \o Pad(now.time[3], 2)

MemoryIdToTheSecond(now) ==
  <<"m", "e", "m", "_">> \o DateDigits(now) \o <<"_">> \o TimeDigits(now)

MemoryIdCompact(now) ==
  <<"m", "e", "m", "_">> \o DateDigits(now) \o TimeDigits(now)
     \o <<"_">> \o Pad(now.us, 6)

\* f"mem_{timestamp.strftime('%Y%m%d_%H%M%S_%f')}"
MemoryId(now) ==
  <<"m", "e", "m", "_">> \o DateDigits(now) \o <<"_">> \o TimeDigits(now)
     \o <<"_">> \o Pad(now.us, 6)

\* timestamp.isoformat(): the microseconds are left out when they are zero.
IsoFormat(now) ==
  Pad(now.date[1], 4) \o <<"-">> \o Pad(now.date[2], 2) \o <<"-">>
    \o Pad(now.date[3], 2) \o <<"T">> \o Pad(now.time[1], 2) \o <<":">>
    \o Pad(now.time[2], 2) \o <<":">> \o Pad(now.time[3], 2)
    \o (IF now.us = 0 THEN <<>> ELSE <<".">> \o Pad(now.us, 6))

\* int(timestamp.timestamp()): whole seconds, counted here from the second
\* of the first of the Instants.
SecondOfDay(now) == now.time[1] * 3600 + now.time[2] * 60 + now.time[3]
Timestamp(now) ==
  (IF now.date = Instants[1].date THEN 0 ELSE 24 * 3600)
    + SecondOfDay(now) - SecondOfDay(Instants[1])

UpperCase == <<"A", "G", "O", "P", "S", "W", "Y">>
LowerCase == <<"a", "g", "o", "p", "s", "w", "y">>
\* str.lower(), letter by letter.
LowerChar(c) ==
  IF \E i \in DOMAIN UpperCase : UpperCase[i] = c
    THEN LowerCase[CHOOSE i \in DOMAIN UpperCase : UpperCase[i] = c]
    ELSE c
Lower(text) == [i \in DOMAIN text |-> LowerChar(text[i])]

\* hashtag.startswith('#')
StartsWithHash(text) == Len(text) > 0 /\ text[1] = "#"

\* The query of search_memories_by_hashtag, given with or without '#'.
Normalize(hashtag) ==
  IF StartsWithHash(hashtag) THEN hashtag ELSE <<"#">> \o hashtag

\* hashtag.lower() in [tag.lower() for tag in item.get('hashtags', [])]
HasHashtag(witem, hashtag) ==
  /\ "hashtags" \in DOMAIN witem
  /\ \E i \in DOMAIN witem.hashtags.val :
        Lower(witem.hashtags.val[i].val) = Lower(hashtag)

\* items.sort(key=timestamp, reverse=True): the arrangements of a page with
\* no item before a more recent one (a stable sort of any scan order).
\* x.get('timestamp', 0)
TimestampOf(witem) ==
  IF "timestamp" \in DOMAIN witem THEN witem.timestamp.val ELSE 0

ScanOrder(page) ==
  {seq \in [1..Cardinality(page) -> page] :
     \A x \in page : \E i \in DOMAIN seq : seq[i] = x}

SortedRecentFirst(page) ==
  {seq \in [1..Cardinality(page) -> page] :
     /\ \A x \in page : \E i \in DOMAIN seq : seq[i] = x
     /\ \A i, j \in DOMAIN seq :
          i < j => TimestampOf(seq[i]) >= TimestampOf(seq[j])}

NoUrl == ""

\* The call takes longer than the clock's resolution: when it returns, the
\* clock shows a later instant.
store_memory_item(content, tldr, hashtags, source_url, metadata) ==
  LET now == Instants[clock]
      memory_id == MemoryId(now)
      base == [memory_id |-> AStr(memory_id), content |-> AStr(content),
               tldr |-> AStr(tldr),
               hashtags |-> AList([i \in DOMAIN hashtags |-> AStr(hashtags[i])]),
               created_at |-> AStr(IsoFormat(now)),
               timestamp |-> AInt(Timestamp(now))]
      url == IF source_url # NoUrl THEN [source_url |-> AStr(source_url)]
                                  ELSE <<>>
      meta == IF metadata # NoItem
                THEN [metadata |-> _convert_floats_to_decimal(AMap(metadata))]
                ELSE <<>>
      item == WithKey(WithKey(base, url), meta)
      witem == SerializeItem(item)
      code == IF Serializable(item) THEN PutItemCode(MEMORY_TABLE_NAME, witem)
                                    ELSE "TypeError"
      wkey == [memory_id |-> WS(memory_id)]
      old == Stored(MEMORY_TABLE_NAME, wkey)
  IN
  /\ clock < Len(Instants)
  /\ \E later \in (clock + 1)..Len(Instants) : clock' = later
  /\ IF code = "ok"
       THEN titems' = [titems EXCEPT ![MEMORY_TABLE_NAME] =
                         PutItemStore(MEMORY_TABLE_NAME, witem)]
       ELSE UNCHANGED titems
  /\ hist' = <<Record("store", MEMORY_TABLE_NAME, wkey, item,
                       IF code = "ok" THEN "ok" ELSE "error",
                       IF code = "ok" THEN memory_id ELSE NoItem, old)>>
  /\ UNCHANGED <<tstatus, tdesc, callers, tret, fault, pending>>

\* A list is recorded in front of the store before it.
list_recent_memories(limit) ==
  LET code == ScanCode(MEMORY_TABLE_NAME)
      after == IF hist # <<>> /\ hist[1].op = "store" THEN <<hist[1]>> ELSE <<>>
  IN
  /\ \E page \in ScanPages(MEMORY_TABLE_NAME, limit) :
       \E items \in SortedRecentFirst(page) :
          hist' = <<Record("list", MEMORY_TABLE_NAME, NoItem, [limit |-> limit],
                           CASE code = "ResourceNotFoundException" -> "TableMissing"
                             [] code # "ok" -> "error"
                             [] items = <<>> -> "NoMemories"
                             [] OTHER -> "ok",
                           IF code = "ok" THEN SubSeq(items, 1, Min(limit, Len(items)))
                                          ELSE <<>>,
                           NoItem)>> \o after
  /\ UNCHANGED <<engine, callers, tret, clock, fault, pending>>

search_memories_by_hashtag(hashtag) ==
  LET query == Normalize(hashtag)
      code == ScanCode(MEMORY_TABLE_NAME)
  IN
  /\ \E page \in ScanPages(MEMORY_TABLE_NAME, Cardinality(titems[MEMORY_TABLE_NAME])) :
       LET matching_items == {item \in page : HasHashtag(item, query)} IN
       hist' = <<Record("search", MEMORY_TABLE_NAME, NoItem, [hashtag |-> hashtag],
                        CASE code # "ok" -> "error"
                          [] matching_items = {} -> "NoMatch"
                          [] OTHER -> "ok",
                        IF code = "ok" THEN matching_items ELSE {},
                        NoItem)>>
  /\ UNCHANGED <<engine, callers, tret, clock, fault, pending>>

(***************************************************************************)
(* The memory tools on the memory table, absent or active at the start.    *)
(***************************************************************************)
TagPython == <<"#", "p", "y">>
TagPYTHON == <<"#", "P", "y">>
TagAws == <<"#", "a", "w", "s">>
TagGo == <<"#", "g", "o">>

StoreArgs ==
  {[hashtags |-> <<TagPython>>, metadata |-> NoItem],
   [hashtags |-> <<TagAws>>, metadata |-> [w |-> PyFloat(3140000)]],
   [hashtags |-> <<TagPYTHON, TagGo>>, metadata |-> NoItem]}
Queries == {TagPython, <<"P", "Y">>, <<"g", "o">>}

MemInit ==
  /\ tstatus \in {st \in [TableNames -> {"Absent", "Active"}] :
                    st[OtherTable] = "Absent"}
  /\ tdesc = [t \in TableNames |->
                IF tstatus[t] = "Active" THEN MemoryDesc ELSE NoDesc]
  /\ titems = [t \in TableNames |-> {}]
  /\ InitCallers
  /\ tret = NoRet
  /\ hist = <<>>
  /\ clock = 1
  /\ fault = "none"
  /\ pending = [w \in Callers |-> NoRequest]

MemNext ==
  \/ \E a \in StoreArgs :
       store_memory_item("c", "t", a.hashtags, NoUrl, a.metadata)
  \/ \E limit \in 1..2 : list_recent_memories(limit)
  \/ \E hashtag \in Queries : search_memories_by_hashtag(hashtag)

MemSpec == MemInit /\ [][MemNext]_vars

\* store_memory_item while the memory table is created by a caller of
\* ensure_memory_table_exists, and deleted by its owner.
StoreNext ==
  \/ store_memory_item("c", "t", <<TagPython>>, NoUrl, NoItem)
  \/ ensure_memory_table_exists(1)
  \/ delete_dynamodb_table(MEMORY_TABLE_NAME)
  \/ EngineProgress(MEMORY_TABLE_NAME)

StoreSpec == MemInit /\ [][StoreNext]_vars

(***************************************************************************)
(* The item tools on a table with a partition key and a sort key, next to  *)
(* a table that does not exist.                                            *)
(***************************************************************************)
SortValues == {"x", "y"}
ReadKeys == {[id |-> AStr("1"), s |-> AStr(v)] : v \in SortValues}
            \cup {[id |-> AStr("2"), s |-> AStr("x")]}
ProbeKey == [id |-> AStr("1"), s |-> AStr("x")]
ReadItems == {WithKey(key, m) : key \in ReadKeys,
                                m \in {<<>>, [a |-> PyFloat(3140000)]}}
\* Items that lack a key attribute: the sort key, the partition key, both.
KeylessItems == {[id |-> AStr("1")], [s |-> AStr("x"), a |-> AInt(1)],
                 [a |-> AInt(1)]}
Limits == 1..2
Filters == {NoFilter, FilterHasA}
KeyNames == {"id", "a"}
ReadTables == {ItemTable, MEMORY_TABLE_NAME}

ReadInit ==
  /\ tstatus = [t \in TableNames |-> IF t = ItemTable THEN "Active" ELSE "Absent"]
  /\ tdesc = [t \in TableNames |->
                IF t = ItemTable THEN [PreloadedDesc(t) EXCEPT !.sk = "s"]
                                 ELSE NoDesc]
  /\ titems = [t \in TableNames |-> {}]
  /\ InitCallers
  /\ tret = NoRet
  /\ hist = <<>>
  /\ clock = 1
  /\ fault = "none"
  /\ pending = [w \in Callers |-> NoRequest]

ReadNext ==
  \/ \E t \in ReadTables, item \in ReadItems \cup KeylessItems :
       put_dynamodb_item(t, item)
  \/ \E t \in ReadTables : get_dynamodb_item(t, ProbeKey)
  \/ \E t \in ReadTables : update_dynamodb_item(t, ProbeKey, [a |-> AInt(1)])
  \/ \E t \in ReadTables : delete_dynamodb_item(t, ProbeKey)
  \/ \E t \in ReadTables, limit \in Limits, filter \in Filters :
       scan_dynamodb_table(t, limit, filter)
  \/ \E t \in ReadTables, name \in KeyNames, value \in KeyValues, limit \in Limits :
       query_dynamodb_table(t, name, value, limit)
  \/ \E limit \in Limits : list_recent_memories(limit)

ReadSpec == ReadInit /\ [][ReadNext]_vars

\* The listing of memories on a memory table that also holds a record written
\* without a timestamp.
UndatedRecord == [memory_id |-> AStr(<<"x">>), tldr |-> AStr("old")]

RecentNext ==
  \/ store_memory_item("c", "t", <<TagPython>>, NoUrl, NoItem)
  \/ put_dynamodb_item(MEMORY_TABLE_NAME, UndatedRecord)
  \/ \E limit \in 1..3 : list_recent_memories(limit)

RecentSpec == MemInit /\ [][RecentNext]_vars

\* store_memory_item with hashtags written with and without the '#', and the
\* search for them.
BareTag == <<"p", "y">>
TagLists == {<<TagPython>>, <<BareTag>>, <<TagAws, BareTag>>}

TagNext ==
  \/ \E hashtags \in TagLists :
       store_memory_item("c", "t", hashtags, NoUrl, NoItem)
  \/ \E hashtag \in {TagPython, BareTag} : search_memories_by_hashtag(hashtag)

TagSpec == MemInit /\ [][TagNext]_vars

\* The engine's availability changes between calls: it answers, it fails with
\* an error response, or it cannot be reached.
Disturb ==
  /\ \E f \in Faults \ {fault} : fault' = f
  /\ UNCHANGED <<engine, callers, tret, hist, clock, pending>>

\* Every tool, on the memory table, while the engine's availability changes.
XKey == [memory_id |-> AStr(<<"x">>)]

FaultNext ==
  \/ Disturb
  \/ ensure_memory_table_exists(1)
  \/ EngineProgress(MEMORY_TABLE_NAME)
  \/ describe_dynamodb_table(MEMORY_TABLE_NAME)
  \/ delete_dynamodb_table(MEMORY_TABLE_NAME)
  \/ list_dynamodb_tables
  \/ put_dynamodb_item(MEMORY_TABLE_NAME, UndatedRecord)
  \/ get_dynamodb_item(MEMORY_TABLE_NAME, XKey)
  \/ scan_dynamodb_table(MEMORY_TABLE_NAME, 1, NoFilter)
  \/ query_dynamodb_table(MEMORY_TABLE_NAME, "memory_id", <<"x">>, 1)
  \/ list_recent_memories(1)
  \/ search_memories_by_hashtag(TagPython)

FaultSpec == MemInit /\ [][FaultNext]_vars

\* Every tool that reads, next to the writes that fill the two tables: a
\* table with a sort key and the memory table, both active.
FrameInit ==
  /\ tstatus = [t \in TableNames |-> "Active"]
  /\ tdesc = [t \in TableNames |->
                IF t = ItemTable THEN [PreloadedDesc(t) EXCEPT !.sk = "s"]
                                 ELSE MemoryDesc]
  /\ titems = [t \in TableNames |-> {}]
  /\ InitCallers
  /\ tret = NoRet
  /\ hist = <<>>
  /\ clock = 1
  /\ fault = "none"
  /\ pending = [w \in Callers |-> NoRequest]

FrameNext ==
  \/ \E key \in ReadKeys :
       put_dynamodb_item(ItemTable, WithKey(key, [a |-> PyFloat(3140000)]))
  \/ store_memory_item("c", "t", <<TagPython>>, NoUrl, [w |-> PyFloat(3140000)])
  \/ get_dynamodb_item(ItemTable, ProbeKey)
  \/ \E limit \in Limits, filter \in Filters :
       scan_dynamodb_table(ItemTable, limit, filter)
  \/ \E value \in KeyValues, limit \in Limits :
       query_dynamodb_table(ItemTable, "id", value, limit)
  \/ \E t \in TableNames : describe_dynamodb_table(t)
  \/ list_dynamodb_tables
  \/ \E limit \in Limits : list_recent_memories(limit)
  \/ \E hashtag \in {TagPython, TagGo} : search_memories_by_hashtag(hashtag)

FrameSpec == FrameInit /\ [][FrameNext]_vars

(***************************************************************************)
(* Claims about the memory tools.                                          *)
(***************************************************************************)
Memories == titems[MEMORY_TABLE_NAME]

\* C16 (as claimed): a search that was answered returns exactly the records
\* of the whole table whose hashtag list holds the tag, letter case aside,
\* whether the tag was given with its '#' or without.
C16_SearchReturnsAllMatches ==
  (hist # <<>> /\ Last.op = "search" /\ Last.res # "error")
    => Last.out = {item \in Memories : HasHashtag(item, Normalize(Last.arg.hashtag))}

\* C17 (as claimed): a list of one memory made right after a store that
\* returned the id m returns the record with the id m, whatever else the
\* table holds.
C17_ListOneReturnsTheStored ==
  (Len(hist) = 2 /\ Last.op = "list" /\ Last.arg.limit = 1
     /\ Before.op = "store" /\ Before.res = "ok")
    => /\ Last.res = "ok"
       /\ Len(Last.out) = 1
       /\ Last.out[1].memory_id.val = Before.out

\* The characters of an id, in the order in which texts are compared.
CharOrder ==
  <<"0", "1", "2", "3", "4", "5", "6", "7", "8", "9", "_", "e", "m">>
CharRank(c) == CHOOSE i \in DOMAIN CharOrder : CharOrder[i] = c

\* a < b as texts: at the first place where they differ a has the lesser
\* character, or a ends there.
LexLess(a, b) ==
  \E k \in 0..Min(Len(a), Len(b)) :
     /\ \A j \in 1..k : a[j] = b[j]
     /\ \/ k = Len(a) /\ k < Len(b)
        \/ k < Len(a) /\ k < Len(b) /\ CharRank(a[k + 1]) < CharRank(b[k + 1])

StoreReturns == clock' # clock /\ hist'[1].op = "store" /\ hist'[1].res = "ok"

\* C18: each store that succeeds, in a sequence of stores made one after
\* another, returns an id that is greater as a text than the id of every
\* record stored before (so different from each of them), adds one record to
\* the table and leaves every record that was there.
C18_IdsUniqueAndIncreasing ==
  [][StoreReturns =>
       /\ \A item \in Memories : LexLess(item.memory_id.val, hist'[1].out)
       /\ Cardinality(titems'[MEMORY_TABLE_NAME]) = Cardinality(Memories) + 1
       /\ Memories \subseteq titems'[MEMORY_TABLE_NAME]]_vars

\* Four stores in a row, the second in the same second as the first and the
\* third in the next year.
C18_Witness ==
  /\ hist # <<>> /\ Last.op = "store" /\ Last.res = "ok"
  /\ Cardinality(Memories) = 4
  /\ clock = 5

IsDigit(c) == \E i \in DOMAIN DigitChars : DigitChars[i] = c
MemPrefixed(id) == SubSeq(id, 1, 4) = <<"m", "e", "m", "_">>
StoredIds == {item.memory_id.val : item \in Memories}

\* C19 (as claimed): every id is "mem_", then 14 digits in a row (date and
\* time), then one underscore, then 6 digits.
C19_IdHasFourteenDigitsInARow ==
  \A id \in StoredIds :
     /\ Len(id) = 25 /\ MemPrefixed(id)
     /\ \A i \in 5..18 : IsDigit(id[i])
     /\ id[19] = "_"
     /\ \A i \in 20..25 : IsDigit(id[i])

\* C19 (amended): every id is "mem_", then the 8 digits of the date, an
\* underscore, the 6 digits of the time, an underscore, and the 6 digits of
\* the microseconds.
C19_IdIsDateTimeMicros ==
  \A id \in StoredIds :
     /\ Len(id) = 26 /\ MemPrefixed(id)
     /\ \A i \in 5..12 : IsDigit(id[i])
     /\ id[13] = "_"
     /\ \A i \in 14..19 : IsDigit(id[i])
     /\ id[20] = "_"
     /\ \A i \in 21..26 : IsDigit(id[i])

\* The id of a store made at midnight sharp: mem_20250101_000000_000000.
C19_Witness ==
  /\ hist # <<>> /\ Last.op = "store" /\ Last.res = "ok"
  /\ Last.out = <<"m", "e", "m", "_", "2", "0", "2", "5", "0", "1", "0", "1",
                   "_", "0", "0", "0", "0", "0", "0",
                   "_", "0", "0", "0", "0", "0", "0">>
  /\ Last.out \in StoredIds

StoreStep == clock' # clock /\ hist'[1].op = "store"

\* C20 (as claimed): store_memory_item called while the memory table is
\* absent creates the table, waits until it is Active, stores the record and
\* returns its id.
C20_StoreCreatesMissingTable ==
  [][(StoreStep /\ tstatus[MEMORY_TABLE_NAME] = "Absent")
       => /\ tstatus'[MEMORY_TABLE_NAME] = "Active"
          /\ hist'[1].res = "ok"
          /\ hist'[1].out \in {item.memory_id.val : item \in titems'[MEMORY_TABLE_NAME]}]_vars

\* C20 (amended): store_memory_item never creates the table nor changes its
\* status.  Called while the table is not Active (absent, being created or
\* being deleted) it returns an error and stores nothing; called while the
\* table is Active it stores the record and returns its id.
C20_StoreNeedsActiveTable ==
  [][StoreStep
       => /\ UNCHANGED <<tstatus, tdesc>>
          /\ tstatus[MEMORY_TABLE_NAME] # "Active"
               => (hist'[1].res = "error" /\ UNCHANGED titems)
          /\ tstatus[MEMORY_TABLE_NAME] = "Active"
               => /\ hist'[1].res = "ok"
                  /\ hist'[1].out \in
                       {item.memory_id.val : item \in titems'[MEMORY_TABLE_NAME]}]_vars

\* A store was refused while the table was absent and nobody had begun to
\* create it.
C20_Witness ==
  /\ hist # <<>> /\ Last.op = "store" /\ Last.res = "error"
  /\ tstatus[MEMORY_TABLE_NAME] = "Absent"
  /\ \A c \in Callers : pc[c] = "idle"

(***************************************************************************)
(* Claims about the item tools, continued.                                 *)
(***************************************************************************)
Applied(w) == pending[w].state = "done" /\ pending[w].res = "ok"
RequestKey(w) == KeyOf(pending[w].table, pending[w].witem)

\* Every stored item is, attribute for attribute, the item of a put that was
\* applied.
StoredIsOnePutInFull ==
  \A i \in titems[ItemTable] :
     \E w \in Callers : Applied(w) /\ pending[w].witem = i

\* Under each key lies the item of the put that was applied last.
LastAppliedWins ==
  \A w \in Callers :
     (/\ Applied(w)
      /\ \A v \in Callers :
           (Applied(v) /\ RequestKey(v) = RequestKey(w))
             => pending[v].applied <= pending[w].applied)
       => Stored(pending[w].table, RequestKey(w)) = pending[w].witem

\* C21: puts of one key made at the same time leave, in every interleaving,
\* the item of one of them in full, the one applied last, and never a
\* mixture of the attributes of several.
C21_ConcurrentPutsLastWins == StoredIsOnePutInFull /\ LastAppliedWins

\* Two puts of one key with different attributes: the one sent first was
\* applied last, and its item is the one stored.
C21_Witness ==
  \E w, v \in Callers :
     /\ Applied(w) /\ Applied(v)
     /\ RequestKey(w) = RequestKey(v)
     /\ pending[w].sent < pending[v].sent
     /\ pending[w].applied > pending[v].applied
     /\ DOMAIN pending[w].item = {"id", "a"}
     /\ DOMAIN pending[v].item = {"id", "b"}
     /\ Stored(ItemTable, RequestKey(w)) = pending[w].witem

\* The item operations, and the verb of each one's failure text.
ItemOps == {"put", "get", "update", "delete", "scan", "query"}
VerbOf(op) ==
  CASE op = "put" -> "putting item"
    [] op = "get" -> "getting item"
    [] op = "update" -> "updating item"
    [] op = "delete" -> "deleting item"
    [] op = "scan" -> "scanning table"
    [] op = "query" -> "querying table"

\* The failures of the engine other than a missing table.
OtherFailures ==
  {"ValidationException", "ResourceInUseException", "TypeError",
   ServiceFault, ConnectionFault}

\* An item tool (or the listing of memories) was called on a table that does
\* not exist.
OnMissingTable ==
  /\ hist' # hist
  /\ hist'[1].op \in ItemOps \cup {"list"}
  /\ tstatus[hist'[1].table] = "Absent"

\* The result says that the table was not found, in words no other failure
\* and no other result of the tool uses.
SaysTableNotFound(r) ==
  IF r.op = "list"
    THEN r.res = "TableMissing"
    ELSE /\ r.res = "error"
         /\ IF r.op \in {"scan", "query"} THEN r.out = {} ELSE r.out = NoItem
         /\ r.msg = <<"Error " \o VerbOf(r.op), "Requested resource not found">>
         /\ \A code \in OtherFailures : r.msg # ErrorText(VerbOf(r.op), code)

\* C22: an item operation (put, get, update, delete, scan, query, and the
\* listing of memories) on a table that does not exist returns a failure that
\* says the table was not found, told apart from "no item found", from a
\* validation failure and from every other failure; the call creates no
\* table and no item.
C22_MissingTableIsReported ==
  [][OnMissingTable => SaysTableNotFound(hist'[1]) /\ UNCHANGED engine]_vars

C22_Witness ==
  /\ hist # <<>>
  /\ Last.op = "scan"
  /\ tstatus[Last.table] = "Absent"
  /\ Last.res = "error"
  /\ Last.msg[2] = EngineMessage("ResourceNotFoundException")

\* Every item a table holds has a value for each key attribute of the table.
EveryItemHasItsKey ==
  \A t \in TableNames : \A i \in titems[t] : KeyAttrs(t) \subseteq DOMAIN i

\* A put on a serving table of an item that lacks a key attribute.
PutWithoutKey ==
  /\ hist' # hist
  /\ hist'[1].op = "put"
  /\ TableServes(hist'[1].table)
  /\ ~(KeyAttrs(hist'[1].table) \subseteq DOMAIN hist'[1].arg)

PutWithoutKeyRejected ==
  PutWithoutKey =>
    /\ hist'[1].res = "error"
    /\ hist'[1].msg = ErrorText("putting item", "ValidationException")
    /\ UNCHANGED engine

\* C23: every stored item has a value for every key attribute of its table;
\* a put of an item that lacks a key attribute is rejected with a validation
\* failure and leaves the table unchanged.
C23_StoredItemsHaveTheirKey ==
  []EveryItemHasItsKey /\ [][PutWithoutKeyRejected]_vars

C23_Witness ==
  /\ hist # <<>>
  /\ Last.op = "put"
  /\ TableServes(Last.table)
  /\ "s" \notin DOMAIN Last.arg
  /\ Last.res = "error"
  /\ Cardinality(titems[Last.table]) >= 2

\* A scan that the engine answered.
ScanStep ==
  /\ hist' # hist
  /\ hist'[1].op = "scan"
  /\ hist'[1].res # "error"

\* The stored items that pass the filter of the scan.
Matching(t, filter) == {i \in titems[t] : Satisfies(i, filter)}

\* C24: a scan with a limit and a filter filters before it truncates: it
\* returns limit items when the table holds at least limit items that pass
\* the filter, and fewer only when fewer pass.
C24_ScanFiltersBeforeTruncating ==
  [][ScanStep =>
       Cardinality(hist'[1].out) =
         Min(hist'[1].arg.limit,
             Cardinality(Matching(hist'[1].table, hist'[1].arg.filter)))]_vars

\* What the tool shows of a stored item.
Shown(witem) == ConvertItemToFloat(DeserializeItem(witem))

\* C25: a scan returns at most limit items, each one an item the table holds
\* that passes the filter; it says "no items" only when it has no item to
\* return.
C25_ScanReturnsStoredMatchingItems ==
  [][ScanStep =>
       LET r == hist'[1] IN
       /\ Cardinality(r.out) <= r.arg.limit
       /\ \A o \in r.out :
            \E i \in titems[r.table] :
               Satisfies(i, r.arg.filter) /\ o = Shown(i)
       /\ r.res = "NoItems" <=> r.out = {}]_vars

C25_Witness ==
  /\ hist # <<>>
  /\ Last.op = "scan"
  /\ Last.res = "ok"
  /\ Last.arg.filter = FilterHasA
  /\ Cardinality(Last.out) = 1
  /\ Cardinality(titems[Last.table]) = 3
  /\ \E i \in titems[Last.table] : ~Satisfies(i, FilterHasA)

\* A query that the engine answered.
QueryStep ==
  /\ hist' # hist
  /\ hist'[1].op = "query"
  /\ hist'[1].res # "error"

\* C26: a query for a partition key value returns at most limit items, each
\* one an item the table holds whose partition key equals the value; it
\* returns no item of another partition.
C26_QueryReturnsItemsOfThePartition ==
  [][QueryStep =>
       LET r == hist'[1]
           pk == tdesc[r.table].pk
       IN
       /\ Cardinality(r.out) <= r.arg.limit
       /\ \A o \in r.out :
            /\ \E i \in titems[r.table] : o = Shown(i) /\ i[pk] = r.key.value
            /\ Serialize(o[pk]) = r.key.value]_vars

C26_Witness ==
  /\ hist # <<>>
  /\ Last.op = "query"
  /\ Last.res = "ok"
  /\ Cardinality(Last.out) = 2
  /\ \E i \in titems[Last.table] : i[tdesc[Last.table].pk] # Last.key.value

\* A listing of memories that the engine answered with records.
ListStep ==
  /\ hist' # hist
  /\ hist'[1].op = "list"
  /\ hist'[1].res = "ok"

\* C27: the listing returns at most limit records, the records of a single
\* scan with that limit, each once, ordered by timestamp descending; a record
\* without a timestamp is ordered as timestamp 0.
C27_ListIsOneScanSortedRecentFirst ==
  [][ListStep =>
       LET r == hist'[1]
           at(i) == IF "timestamp" \in DOMAIN r.out[i]
                      THEN r.out[i].timestamp.val ELSE 0
       IN
       /\ Len(r.out) <= r.arg.limit
       /\ {r.out[i] : i \in DOMAIN r.out} \in ScanPages(r.table, r.arg.limit)
       /\ \A i, j \in DOMAIN r.out : i # j => r.out[i] # r.out[j]
       /\ \A i, j \in DOMAIN r.out : i < j => at(i) >= at(j)]_vars

C27_Witness ==
  /\ hist # <<>>
  /\ Last.op = "list"
  /\ Last.res = "ok"
  /\ Len(Last.out) = 2
  /\ "timestamp" \in DOMAIN Last.out[1]
  /\ "timestamp" \notin DOMAIN Last.out[2]
  /\ Cardinality(Memories) = 3

\* The tools that read, by the name of their record.
ReadOps == {"get", "scan", "query", "tables", "list", "search"}

\* A step of a tool that reads.
ReadToolStep ==
  \/ hist' # hist /\ hist'[1].op \in ReadOps
  \/ tret' # tret /\ tret'.op = "describe"

\* The stored numbers are decimals, whatever was returned.
StoredAsDecimals ==
  \A t \in TableNames : \A i \in titems[t] :
     \A k \in DOMAIN i : i[k].kind \notin {"float", "Decimal"}

\* C28: the reads (get, scan, query, describe, list tables, list recent
\* memories, search by hashtag) leave the descriptor, the status and the
\* items of every table unchanged; the conversion of decimals to floats is
\* applied to what is returned, never to what is stored.
C28_ReadsChangeNothing ==
  [][ReadToolStep => UNCHANGED engine /\ StoredAsDecimals']_vars

C28_Witness ==
  /\ hist # <<>>
  /\ Last.op = "scan"
  /\ Last.res = "ok"
  /\ \E o \in Last.out : o.a.kind = "float"
  /\ \A i \in titems[Last.table] : i.a.kind = "N"
  /\ Memories # {}
  /\ tret.op = "describe"

\* C29: every memory record stored by store_memory_item has a list of
\* hashtags each of which begins with '#', whatever hashtags the call was
\* given.
C29_StoredHashtagsStartWithHash ==
  \A m \in Memories :
     \A i \in DOMAIN m.hashtags.val : StartsWithHash(m.hashtags.val[i].val)

\* C30: every tool reports a failure of the engine as a returned error
\* result and lets no exception escape to its caller, for error responses
\* and for connection faults alike, at every engine call it makes.
C30_NoExceptionEscapes ==
  /\ \A c \in Callers : res[c] # "raised"
  /\ tret.res # "raised"
  /\ hist # <<>> => Last.res # "raised"

=============================================================================
